---- MODULE Spec2Model ----
(***************************************************************************)
(* Model of the brochure question-answering pipeline:                      *)
(*   src/genai.py  MarkdownVectorDB (_chunk_text, _create_index, query)    *)
(*   src/ui.py     process_brochure_handler, ask_question_handler,         *)
(*                 clear_all and the process-wide genai_db                 *)
(*                                                                         *)
(* A word is a positive integer.  A sentence is the word list sent.split() *)
(* yields, a paragraph is the list of sentences sent_tokenize yields, and  *)
(* a document is the list of paragraphs re.split yields.  A chunk is the   *)
(* string " ".join builds: the words with SPACE between neighbours.        *)
(*                                                                         *)
(* Four specifications:                                                    *)
(*   Spec            _chunk_text, step by step, on every small text        *)
(*   SpecScenario    _chunk_text on the 600 + 500 word text, 800 / 100     *)
(*   SpecApp         genai.py run as a script, or ui.py with its handlers  *)
(*                   running in worker threads for two browser sessions;   *)
(*                   a handler is cut into steps at its accesses to the    *)
(*                   global genai_db.  debug_status only reads and is      *)
(*                   left out.                                             *)
(*   SpecSequential  ui.py with its handlers run one at a time             *)
(***************************************************************************)
EXTENDS Integers, Sequences, FiniteSets, TLC

\* ---------------------------------------------------------------- bounds
MaxSents == 3
MaxSentLen == 3
MaxChunkSize == 4
MaxOverlap == 3
MaxCalls == 3

\* ------------------------------------------------------- program constants
DefaultChunkSize == 800
DefaultOverlap == 100
DefaultTopK == 3

SPACE == 0

VARIABLES
    paragraphs,      \* _chunk_text: the tokenized text
    chunk_size,      \* self.chunk_size
    overlap,         \* self.overlap
    chunks,          \* _chunk_text: chunks
    current_chunk,   \* _chunk_text: current_chunk
    current_length,  \* _chunk_text: current_length
    para_i,          \* position of `for para in paragraphs`
    sent_i,          \* position of `for sent in sentences`
    pc,              \* "loop" | "done" | "off"
    entry,           \* the program run: "chunk", "script" (genai.py), "ui" (ui.py)
    genai_db,        \* ui.py global genai_db
    current_project_data, \* ui.py global current_project_data
    data_state,      \* gr.State data_state, one value per browser session
    chat_state,      \* gr.State chat_state, one value per browser session
    status_text,     \* the status Textbox, one per browser session
    proc,            \* process_brochure_handler call of each browser session
    ask,             \* ask_question_handler call of each browser session
    calls,           \* number of events the front end has dispatched
    db,              \* genai.py __main__: db
    script           \* genai.py __main__: position and printed answers

chunkVars == <<paragraphs, chunk_size, overlap, chunks, current_chunk,
               current_length, para_i, sent_i, pc>>

uiVars == <<genai_db, current_project_data, data_state, chat_state,
            status_text, proc, ask, calls>>

scriptVars == <<db, script>>

vars == <<chunkVars, entry, uiVars, scriptVars>>

\* ------------------------------------------------------- python sequences
Min(a, b) == IF a < b THEN a ELSE b

\* s[-n:] for n > 0: the last n items, the whole list when it is shorter
LastWords(s, n) ==
    IF n >= Len(s) THEN s ELSE SubSeq(s, Len(s) - n + 1, Len(s))

\* s[:n] for n >= 0
FirstWords(s, n) == SubSeq(s, 1, Min(n, Len(s)))

\* s[n:] for n >= 0
DropWords(s, n) == SubSeq(s, Min(n, Len(s)) + 1, Len(s))

\* " ".join(words)
Join(words) ==
    IF Len(words) = 0 THEN <<>>
    ELSE [i \in 1..(2 * Len(words) - 1) |->
             IF i % 2 = 1 THEN words[(i + 1) \div 2] ELSE SPACE]

\* str.split(): the maximal runs without whitespace
Split(str) == SelectSeq(str, LAMBDA c : c # SPACE)

\* ----------------------------------------------------------- _chunk_text
\* Overflows with a fault: closes when the limit is reached, not when passed
OverflowsAtLimit(length, sent_len, size) == length + sent_len >= size

\* line 40: current_length + sent_len > self.chunk_size
Overflows(length, sent_len, size) == length + sent_len > size

\* OverlapWords with a fault: takes the words from the head, current_chunk[:overlap]
OverlapWordsFromHead(cur, ov) == IF ov > 0 THEN FirstWords(cur, ov) ELSE <<>>

\* OverlapWords with a fault: takes one word too many
OverlapWordsOneMore(cur, ov) == IF ov > 0 THEN LastWords(cur, ov + 1) ELSE <<>>

\* line 42: current_chunk[-self.overlap:] if self.overlap > 0 else []
OverlapWords(cur, ov) == IF ov > 0 THEN LastWords(cur, ov) ELSE <<>>

\* CloseStep with a fault: the sentence that did not fit is lost
CloseStepLosesSentence(st, words, ov) ==
    LET seeded == OverlapWords(st.current_chunk, ov)
    IN  [chunks         |-> Append(st.chunks, Join(st.current_chunk)),
         current_chunk  |-> seeded,
         current_length |-> Len(seeded)]

\* lines 41-44: close the chunk and seed the next one
CloseStep(st, words, ov) ==
    LET seeded == OverlapWords(st.current_chunk, ov) \o words
    IN  [chunks         |-> Append(st.chunks, Join(st.current_chunk)),
         current_chunk  |-> seeded,
         current_length |-> Len(seeded)]

\* ExtendStep with a fault: the running count is not increased
ExtendStepKeepsCount(st, words) ==
    [chunks         |-> st.chunks,
     current_chunk  |-> st.current_chunk \o words,
     current_length |-> st.current_length]

\* lines 46-47: extend the chunk
ExtendStep(st, words) ==
    [chunks         |-> st.chunks,
     current_chunk  |-> st.current_chunk \o words,
     current_length |-> st.current_length + Len(words)]

\* lines 37-47: the body of the sentence loop
SentenceStep(st, words, size, ov) ==
    IF Overflows(st.current_length, Len(words), size)
    THEN CloseStep(st, words, ov)
    ELSE ExtendStep(st, words)

\* FinalChunks with a fault: the accumulator is never flushed
FinalChunksUnflushed(st) == st.chunks

\* lines 49-52: the final chunk
FinalChunks(st) ==
    IF st.current_chunk # <<>>
    THEN Append(st.chunks, Join(st.current_chunk))
    ELSE st.chunks

\* all sentences of the document, in the order the two loops visit them
RECURSIVE Sentences(_)
Sentences(paras) ==
    IF paras = <<>> THEN <<>> ELSE Head(paras) \o Sentences(Tail(paras))

RECURSIVE Flatten(_)
Flatten(sents) ==
    IF sents = <<>> THEN <<>> ELSE Head(sents) \o Flatten(Tail(sents))

RECURSIVE ChunkLoop(_, _, _, _)
ChunkLoop(st, sents, size, ov) ==
    IF sents = <<>> THEN st
    ELSE ChunkLoop(SentenceStep(st, Head(sents), size, ov), Tail(sents), size, ov)

\* line 31-32
EmptyAccumulator ==
    [chunks |-> <<>>, current_chunk |-> <<>>, current_length |-> 0]

\* _chunk_text as a function of the tokenized text
ChunkText(paras, size, ov) ==
    FinalChunks(ChunkLoop(EmptyAccumulator, Sentences(paras), size, ov))

Accumulator ==
    [chunks |-> chunks, current_chunk |-> current_chunk,
     current_length |-> current_length]

CurrentSentence == paragraphs[para_i][sent_i]

InSentenceLoop ==
    /\ pc = "loop"
    /\ para_i <= Len(paragraphs)
    /\ sent_i <= Len(paragraphs[para_i])

\* lines 36-44, the branch that closes a chunk
CloseChunk ==
    /\ InSentenceLoop
    /\ Overflows(current_length, Len(CurrentSentence), chunk_size)
    /\ LET st == CloseStep(Accumulator, CurrentSentence, overlap)
       IN  /\ chunks' = st.chunks
           /\ current_chunk' = st.current_chunk
           /\ current_length' = st.current_length
    /\ sent_i' = sent_i + 1
    /\ UNCHANGED <<paragraphs, chunk_size, overlap, para_i, pc>>
    /\ UNCHANGED <<entry, uiVars, scriptVars>>

\* lines 36-40 and 45-47, the branch that extends the chunk
ExtendChunk ==
    /\ InSentenceLoop
    /\ ~Overflows(current_length, Len(CurrentSentence), chunk_size)
    /\ LET st == ExtendStep(Accumulator, CurrentSentence)
       IN  /\ chunks' = st.chunks
           /\ current_chunk' = st.current_chunk
           /\ current_length' = st.current_length
    /\ sent_i' = sent_i + 1
    /\ UNCHANGED <<paragraphs, chunk_size, overlap, para_i, pc>>
    /\ UNCHANGED <<entry, uiVars, scriptVars>>

\* line 34: the next paragraph once the sentences of this one are consumed
NextParagraph ==
    /\ pc = "loop"
    /\ para_i < Len(paragraphs)
    /\ sent_i > Len(paragraphs[para_i])
    /\ para_i' = para_i + 1
    /\ sent_i' = 1
    /\ UNCHANGED <<paragraphs, chunk_size, overlap, chunks, current_chunk,
                   current_length, pc>>
    /\ UNCHANGED <<entry, uiVars, scriptVars>>

\* lines 49-52: after the last paragraph
ReturnChunks ==
    /\ pc = "loop"
    /\ para_i = Len(paragraphs)
    /\ sent_i > Len(paragraphs[para_i])
    /\ chunks' = FinalChunks(Accumulator)
    /\ pc' = "done"
    /\ UNCHANGED <<paragraphs, chunk_size, overlap, current_chunk,
                   current_length, para_i, sent_i>>
    /\ UNCHANGED <<entry, uiVars, scriptVars>>

\* ------------------------------------------------------------- documents
RECURSIVE Sum(_)
Sum(lens) == IF lens = <<>> THEN 0 ELSE Head(lens) + Sum(Tail(lens))

\* the sentence of `len` words that starts after `before` words of the text;
\* vocab is the number of different words the text uses
SentenceAt(before, len, vocab) ==
    [k \in 1..len |-> ((before + k - 1) % vocab) + 1]

SentenceList(lens, vocab) ==
    [i \in 1..Len(lens) |->
        SentenceAt(Sum(SubSeq(lens, 1, i - 1)), lens[i], vocab)]

\* the sentences cut into paragraphs after the positions in breaks;
\* the empty text is one paragraph without sentences
RECURSIVE Cut(_, _, _)
Cut(sents, breaks, from) ==
    IF \E b \in breaks : b >= from
    THEN LET b == CHOOSE x \in breaks :
                      x >= from /\ \A y \in breaks : y >= from => x <= y
         IN  <<SubSeq(sents, from, b)>> \o Cut(sents, breaks, b + 1)
    ELSE <<SubSeq(sents, from, Len(sents))>>

Document(lens, breaks, vocab) == Cut(SentenceList(lens, vocab), breaks, 1)


SeqsUpTo(S, n) == UNION {[1..k -> S] : k \in 0..n}

\* -------------------------------------------------- python values, raising
None == [kind |-> "None"]

Raise(error) == [raised |-> TRUE, error |-> error]

Return(value) == [raised |-> FALSE, value |-> value]

\* ------------------------------------------------------- markdown files
\* The markdown files the extraction pipeline may leave behind.  A word
\* counts one character, so a text of n words has 2n - 1 characters.
MarkdownFiles == {"empty", "tiny", "short", "two", "three", "four"}

FileText(path) ==
    CASE path = "empty" -> Document(<<>>, {}, 1)
      [] path = "tiny"  -> Document(<<10>>, {}, 10)
      [] path = "short" -> Document(<<20, 20>>, {}, 40)
      [] path = "two"   -> Document(<<600, 500>>, {1}, 1100)
      [] path = "three" -> Document(<<500, 500, 500>>, {1}, 1500)
      [] path = "four"  -> Document(<<500, 500, 500, 500>>, {2}, 2000)

\* f.read() of the file, and os.path.getsize
FileContent(path) == Join(Flatten(Sentences(FileText(path))))

FileSize(path) == Len(FileContent(path))

\* lines 22-26: _load_markdown with the default chunk_size and overlap
LoadMarkdown ==
    [path \in MarkdownFiles |->
        ChunkText(FileText(path), DefaultChunkSize, DefaultOverlap)]

FileSizes == [path \in MarkdownFiles |-> FileSize(path)]

\* The strings a session holds are kept by reference: StringTable lists
\* every chunk string of every file once, StringId(str) is the place of str
\* in it and StringOf(id) the string at a place.
RECURSIVE SetToSeq(_)
SetToSeq(S) ==
    IF S = {} THEN <<>>
    ELSE LET x == CHOOSE y \in S : TRUE IN <<x>> \o SetToSeq(S \ {x})

StringTable ==
    SetToSeq(UNION {{LoadMarkdown[p][i] : i \in DOMAIN LoadMarkdown[p]} :
                       p \in MarkdownFiles})

StringId(str) == CHOOSE i \in DOMAIN StringTable : StringTable[i] = str

StringOf(id) == StringTable[id]

\* ------------------------------------------------------ MarkdownVectorDB
\* CreateIndex with a fault: a failed embedding call is skipped and the index
\* is built over the vectors obtained before it
CreateIndexKeepsPartial(chs, fail_at) ==
    IF Len(chs) = 0 THEN Raise("IndexError")
    ELSE IF fail_at \in 2..Len(chs) THEN Return([ntotal |-> fail_at - 1])
    ELSE Return([ntotal |-> Len(chs)])

\* lines 54-72: one embedding per chunk, then the index over all of them.
\* fail_at is the chunk whose embed_content call raises, 0 when none does.
CreateIndex(chs, fail_at) ==
    IF fail_at \in 1..Len(chs) THEN Raise("APIError")
    ELSE IF Len(chs) = 0 THEN Raise("IndexError")
    ELSE Return([ntotal |-> Len(chs)])

\* lines 10-26: __init__ and _load_markdown
NewDB(path, fail_at) ==
    LET chs == LoadMarkdown[path]
        idx == CreateIndex(chs, fail_at)
    IN  IF idx.raised THEN idx
        ELSE Return([kind          |-> "MarkdownVectorDB",
                     markdown_path |-> path,
                     chunks        |-> [i \in DOMAIN chs |-> StringId(chs[i])],
                     index         |-> idx.value])

\* the chunks whose embedding may fail while the file is indexed
FailPoints(path) == 0..Len(LoadMarkdown[path])

\* the orders in which a question may rank the n stored vectors (labels
\* from 0, nearest first)
Rankings(n) ==
    {r \in [1..n -> 0..(n - 1)] : \A i, j \in 1..n : r[i] = r[j] => i = j}

\* line 86: IndexFlatL2.search returns k labels, -1 where the index has
\* fewer than k vectors
FaissSearch(index, ranking, k) ==
    [i \in 1..k |-> IF i <= index.ntotal THEN ranking[i] ELSE -1]

\* list[idx]: the position (from 1) python reads, 0 for an IndexError
PyPos(n, idx) ==
    IF idx >= 0 THEN (IF idx < n THEN idx + 1 ELSE 0)
    ELSE (IF n + idx >= 0 THEN n + idx + 1 ELSE 0)

\* line 87: the chunks joined into the context, as positions in self.chunks
ContextEntries(self, labels) ==
    [j \in 1..Len(labels) |-> PyPos(Len(self.chunks), labels[j])]

QueryFaults == {"none", "embed", "generate", "blank"}

\* lines 74-108: query; the answer is the generation service's reply to the
\* prompt, recorded as the context the prompt carried
Query(self, ranking, fault) ==
    IF fault = "embed" THEN Raise("APIError")
    ELSE LET labels == FaissSearch(self.index, ranking, DefaultTopK)
             context == ContextEntries(self, labels)
         IN  IF \E j \in 1..Len(context) : context[j] = 0
             THEN Raise("IndexError")
             ELSE IF fault = "generate" THEN Raise("APIError")
             ELSE Return([text    |-> IF fault = "blank" THEN "" ELSE "text",
                          path    |-> self.markdown_path,
                          labels  |-> labels,
                          context |-> context])

\* obj.query(...) on the value a name holds: None has no attribute query
CallQuery(obj, ranking, fault) ==
    IF obj = None THEN Raise("AttributeError") ELSE Query(obj, ranking, fault)

RankingsOf(obj) ==
    IF obj = None THEN {<<>>} ELSE Rankings(obj.index.ntotal)

\* --------------------------------------------------- genai.py as a script
\* lines 113-116: db = MarkdownVectorDB(...); an exception ends the script
ScriptBuild ==
    /\ entry = "script"
    /\ script.pc = "build"
    /\ \E fail_at \in FailPoints(script.path) :
         LET r == NewDB(script.path, fail_at)
         IN  IF r.raised
             THEN /\ script' = [script EXCEPT !.pc = "raised", !.error = r.error]
                  /\ db' = db
             ELSE /\ script' = [script EXCEPT !.pc = "query"]
                  /\ db' = r.value
    /\ UNCHANGED <<chunkVars, entry, uiVars>>

\* lines 118-119: print(db.query(...)), twice
ScriptQuery ==
    /\ entry = "script"
    /\ script.pc = "query"
    /\ \E ranking \in RankingsOf(db), fault \in QueryFaults :
         LET r == CallQuery(db, ranking, fault)
         IN  IF r.raised
             THEN script' = [script EXCEPT !.pc = "raised", !.error = r.error]
             ELSE script' = [script EXCEPT
                               !.printed = Append(@, r.value),
                               !.pc = IF Len(script.printed) = 1
                                      THEN "exit" ELSE "query"]
    /\ UNCHANGED <<chunkVars, entry, uiVars, db>>

\* ------------------------------------------------------------------ ui.py
Users == {"u1", "u2"}

\* The brochures a user may upload, named by what the extraction pipeline
\* makes of them: "bad" fails before any data is extracted, "nomd" leaves no
\* markdown file, the others leave the markdown file of the same name.
Uploads == {"bad", "nomd", "tiny", "short", "two", "three"}

ExtractionOk(pdf) == pdf # "bad"

\* result.get('response_path') where the file exists, NoPath otherwise
NoPath == ""

ResponsePath(pdf) == IF pdf = "nomd" THEN NoPath ELSE pdf

\* full_data.get('extraction'): the data extracted from the brochure
Extraction(pdf) == [kind |-> "extraction", projectName |-> pdf]

MinFileSize == 50
MinContentLen == 100

IdleProc == [pc |-> "idle", pdf |-> "", qa_status |-> "NotAvailable"]

IdleAsk == [pc |-> "idle", history |-> <<>>, data |-> None]

\* lines 89-90: no file was uploaded
ProcessNoPdf(u) ==
    /\ entry = "ui"
    /\ calls < MaxCalls
    /\ calls' = calls + 1
    /\ proc[u].pc = "idle"
    /\ status_text' = [status_text EXCEPT ![u] = "NoPdf"]
    /\ data_state' = [data_state EXCEPT ![u] = None]
    /\ UNCHANGED <<chunkVars, entry, scriptVars, genai_db,
                   current_project_data, chat_state, proc, ask>>

\* lines 92-124 and 224-228: the extraction fails (status, json file, empty
\* extraction, or an exception)
ProcessFailed(u) ==
    /\ entry = "ui"
    /\ calls < MaxCalls
    /\ calls' = calls + 1
    /\ proc[u].pc = "idle"
    /\ \E pdf \in Uploads :
         /\ ~ExtractionOk(pdf)
         /\ status_text' = [status_text EXCEPT ![u] = "Failed"]
         /\ data_state' = [data_state EXCEPT ![u] = None]
    /\ UNCHANGED <<chunkVars, entry, scriptVars, genai_db,
                   current_project_data, chat_state, proc, ask>>

\* lines 92-142: the extraction succeeds; line 126 sets current_project_data
ProcessExtract(u) ==
    /\ entry = "ui"
    /\ calls < MaxCalls
    /\ calls' = calls + 1
    /\ proc[u].pc = "idle"
    /\ \E pdf \in Uploads :
         /\ ExtractionOk(pdf)
         /\ current_project_data' = Extraction(pdf)
         /\ proc' = [proc EXCEPT ![u] = [pc |-> "reset", pdf |-> pdf,
                                          qa_status |-> "NotAvailable"]]
    /\ UNCHANGED <<chunkVars, entry, scriptVars, genai_db, data_state,
                   chat_state, status_text, ask>>

\* lines 145-146: genai_db = None  # Reset first
ProcessReset(u) ==
    /\ entry = "ui"
    /\ calls' = calls
    /\ proc[u].pc = "reset"
    /\ genai_db' = None
    /\ proc' = [proc EXCEPT ![u].pc = "build"]
    /\ UNCHANGED <<chunkVars, entry, scriptVars, current_project_data,
                   data_state, chat_state, status_text, ask>>

\* lines 148-178 and 207-209: why no session is built for the markdown file,
\* "" when one is built
Unavailable(md_file, api_key_ok) ==
    IF md_file = NoPath THEN "NoMarkdown"
    ELSE IF FileSizes[md_file] < MinFileSize THEN "Insufficient"
    ELSE IF ~api_key_ok THEN "NoApiKey"
    ELSE IF FileSizes[md_file] < MinContentLen THEN "TooShort"
    ELSE ""

\* lines 148-188 and 201-209: the checks, then
\* genai_db = MarkdownVectorDB(...); an exception sets genai_db = None
ProcessBuild(u) ==
    /\ entry = "ui"
    /\ calls' = calls
    /\ proc[u].pc = "build"
    /\ \E api_key_ok \in BOOLEAN :
         LET md_file == ResponsePath(proc[u].pdf)
             why == Unavailable(md_file, api_key_ok)
         IN  IF why # ""
             THEN /\ proc' = [proc EXCEPT ![u].pc = "return",
                                          ![u].qa_status = why]
                  /\ genai_db' = genai_db
             ELSE \E fail_at \in FailPoints(md_file) :
                    LET r == NewDB(md_file, fail_at)
                    IN  IF r.raised
                        THEN /\ genai_db' = None
                             /\ proc' = [proc EXCEPT ![u].pc = "return",
                                                     ![u].qa_status = "Error"]
                        ELSE /\ genai_db' = r.value
                             /\ proc' = [proc EXCEPT ![u].pc = "test"]
    /\ UNCHANGED <<chunkVars, entry, scriptVars, current_project_data,
                   data_state, chat_state, status_text, ask>>

\* lines 191-195: the test query on whatever genai_db holds now
ProcessTest(u) ==
    /\ entry = "ui"
    /\ calls' = calls
    /\ proc[u].pc = "test"
    /\ \E ranking \in RankingsOf(genai_db), fault \in QueryFaults :
         LET r == CallQuery(genai_db, ranking, fault)
         IN  IF r.raised
             THEN proc' = [proc EXCEPT ![u].pc = "test_failed"]
             ELSE proc' = [proc EXCEPT ![u].pc = "return",
                                       ![u].qa_status = "Ready"]
    /\ UNCHANGED <<chunkVars, entry, scriptVars, genai_db,
                   current_project_data, data_state, chat_state,
                   status_text, ask>>

\* lines 196-199: the test query raised: genai_db = None
ProcessTestFailed(u) ==
    /\ entry = "ui"
    /\ calls' = calls
    /\ proc[u].pc = "test_failed"
    /\ genai_db' = None
    /\ proc' = [proc EXCEPT ![u].pc = "return", ![u].qa_status = "Error"]
    /\ UNCHANGED <<chunkVars, entry, scriptVars, current_project_data,
                   data_state, chat_state, status_text, ask>>

\* lines 211-222: return final_summary, images, extraction_data
ProcessReturn(u) ==
    /\ entry = "ui"
    /\ calls' = calls
    /\ proc[u].pc = "return"
    /\ status_text' = [status_text EXCEPT ![u] = proc[u].qa_status]
    /\ data_state' = [data_state EXCEPT ![u] = Extraction(proc[u].pdf)]
    /\ proc' = [proc EXCEPT ![u] = IdleProc]
    /\ UNCHANGED <<chunkVars, entry, scriptVars, genai_db,
                   current_project_data, chat_state, ask>>

\* one exchange of the chat: the ("user", ...) and ("assistant", ...) pair
\* the handler appends.  `about` is the extraction data the question came
\* with, `answer` what the assistant replied from.
Exchange(kind, about, answer) ==
    [kind |-> kind, about |-> about,
     from |-> IF answer = None THEN NoPath ELSE answer.path]

Questions == {"", "q"}

\* lines 244-262: the checks before the query; line 260 reads genai_db
AskStart(u) ==
    /\ entry = "ui"
    /\ calls < MaxCalls
    /\ calls' = calls + 1
    /\ ask[u].pc = "idle"
    /\ \E question \in Questions :
         LET history == chat_state[u]
             extraction_data == data_state[u]
             reply(kind) == Append(history, Exchange(kind, extraction_data, None))
         IN  IF question = ""
             THEN /\ chat_state' = [chat_state EXCEPT ![u] = reply("TypeQuestion")]
                  /\ ask' = ask
             ELSE IF extraction_data = None
             THEN /\ chat_state' = [chat_state EXCEPT ![u] = reply("UploadFirst")]
                  /\ ask' = ask
             ELSE IF genai_db = None
             THEN /\ chat_state' = [chat_state EXCEPT ![u] = reply("NotAvailable")]
                  /\ ask' = ask
             ELSE /\ ask' = [ask EXCEPT ![u] = [pc |-> "query",
                                                history |-> history,
                                                data |-> extraction_data]]
                  /\ chat_state' = chat_state
    /\ UNCHANGED <<chunkVars, entry, scriptVars, genai_db,
                   current_project_data, data_state, status_text, proc>>

\* lines 264-288: answer = genai_db.query(question) on whatever genai_db
\* holds now, and the three ways the handler returns
AskQuery(u) ==
    /\ entry = "ui"
    /\ calls' = calls
    /\ ask[u].pc = "query"
    /\ \E ranking \in RankingsOf(genai_db), fault \in QueryFaults :
         LET r == CallQuery(genai_db, ranking, fault)
             reply(kind, answer) ==
                 Append(ask[u].history, Exchange(kind, ask[u].data, answer))
         IN  chat_state' = [chat_state EXCEPT ![u] =
                 IF ~r.raised
                 THEN reply(IF r.value.text = "" THEN "NoAnswer" ELSE "Answer",
                            r.value)
                 ELSE IF r.error = "AttributeError"
                 THEN reply("Issue", None)
                 ELSE reply("Error", None)]
    /\ ask' = [ask EXCEPT ![u] = IdleAsk]
    /\ UNCHANGED <<chunkVars, entry, scriptVars, genai_db,
                   current_project_data, data_state, status_text, proc>>

\* lines 290-298: clear_all
ClearAll(u) ==
    /\ entry = "ui"
    /\ calls < MaxCalls
    /\ calls' = calls + 1
    /\ genai_db' = None
    /\ current_project_data' = None
    /\ status_text' = [status_text EXCEPT ![u] = "ReadyForNew"]
    /\ data_state' = [data_state EXCEPT ![u] = None]
    /\ chat_state' = [chat_state EXCEPT ![u] = <<>>]
    /\ UNCHANGED <<chunkVars, entry, scriptVars, proc, ask>>

\* lines 513-516: the Clear Chat button
ClearChat(u) ==
    /\ entry = "ui"
    /\ calls < MaxCalls
    /\ calls' = calls + 1
    /\ chat_state[u] # <<>>
    /\ chat_state' = [chat_state EXCEPT ![u] = <<>>]
    /\ UNCHANGED <<chunkVars, entry, scriptVars, genai_db,
                   current_project_data, data_state, status_text, proc, ask>>

\* ------------------------------------------------------- specifications
ChunkOff ==
    /\ paragraphs = <<>>
    /\ chunk_size = DefaultChunkSize
    /\ overlap = DefaultOverlap
    /\ chunks = <<>>
    /\ current_chunk = <<>>
    /\ current_length = 0
    /\ para_i = 1
    /\ sent_i = 1
    /\ pc = "off"

ChunkStart ==
    /\ chunks = <<>>
    /\ current_chunk = <<>>
    /\ current_length = 0
    /\ para_i = 1
    /\ sent_i = 1
    /\ pc = "loop"

UiStart ==
    /\ genai_db = None
    /\ current_project_data = None
    /\ data_state = [u \in Users |-> None]
    /\ chat_state = [u \in Users |-> <<>>]
    /\ status_text = [u \in Users |-> "Initial"]
    /\ proc = [u \in Users |-> IdleProc]
    /\ ask = [u \in Users |-> IdleAsk]
    /\ calls = 0

ScriptStart(paths) ==
    /\ db = None
    /\ \E path \in paths :
         script = [pc |-> "build", path |-> path, printed |-> <<>>, error |-> ""]

\* _chunk_text on every small text, chunk_size and overlap
Init ==
    /\ entry = "chunk"
    /\ \E lens \in SeqsUpTo(1..MaxSentLen, MaxSents) :
       \E breaks \in SUBSET (1..(Len(lens) - 1)) :
       \E vocab \in {2, MaxSents * MaxSentLen} :
           paragraphs = Document(lens, breaks, vocab)
    /\ chunk_size \in 0..MaxChunkSize
    /\ overlap \in 0..MaxOverlap
    /\ ChunkStart
    /\ UiStart
    /\ ScriptStart({"empty"})

Next ==
    \/ CloseChunk
    \/ ExtendChunk
    \/ NextParagraph
    \/ ReturnChunks

Spec == Init /\ [][Next]_vars

\* python genai.py and python ui.py
InitApp ==
    /\ entry \in {"script", "ui"}
    /\ ChunkOff
    /\ UiStart
    /\ ScriptStart(IF entry = "script" THEN MarkdownFiles ELSE {"empty"})

NextApp ==
    \/ ScriptBuild
    \/ ScriptQuery
    \/ \E u \in Users :
         \/ ProcessNoPdf(u)
         \/ ProcessFailed(u)
         \/ ProcessExtract(u)
         \/ ProcessReset(u)
         \/ ProcessBuild(u)
         \/ ProcessTest(u)
         \/ ProcessTestFailed(u)
         \/ ProcessReturn(u)
         \/ AskStart(u)
         \/ AskQuery(u)
         \/ ClearAll(u)
         \/ ClearChat(u)

SpecApp == InitApp /\ [][NextApp]_vars

\* python ui.py with its events handled one at a time: a handler starts only
\* once every handler has returned
NoHandlerRunning ==
    \A u \in Users : proc[u].pc = "idle" /\ ask[u].pc = "idle"

InitSequential ==
    /\ entry = "ui"
    /\ ChunkOff
    /\ UiStart
    /\ ScriptStart({"empty"})

NextSequential ==
    \E u \in Users :
        \/ NoHandlerRunning /\ ProcessNoPdf(u)
        \/ NoHandlerRunning /\ ProcessFailed(u)
        \/ NoHandlerRunning /\ ProcessExtract(u)
        \/ ProcessReset(u)
        \/ ProcessBuild(u)
        \/ ProcessTest(u)
        \/ ProcessTestFailed(u)
        \/ ProcessReturn(u)
        \/ NoHandlerRunning /\ AskStart(u)
        \/ AskQuery(u)
        \/ NoHandlerRunning /\ ClearAll(u)
        \/ NoHandlerRunning /\ ClearChat(u)

SpecSequential == InitSequential /\ [][NextSequential]_vars

\* The two-paragraph text of 600 and 500 words under the default chunk_size
\* and overlap; each paragraph is cut into sentences in one of several ways
EqualSentences(total, len) == [i \in 1..(total \div len) |-> len]

FirstParagraphs ==
    {EqualSentences(600, len) : len \in {50, 100, 200, 300, 600}}
        \cup {<<1, 599>>, <<599, 1>>, <<250, 150, 200>>}

SecondParagraphs ==
    {EqualSentences(500, len) : len \in {50, 100, 125, 250, 500}}
        \cup {<<200, 300>>, <<201, 299>>, <<199, 1, 1, 299>>, <<150, 50, 300>>,
              <<1, 499>>, <<499, 1>>}

InitScenario ==
    /\ entry = "chunk"
    /\ \E lens1 \in FirstParagraphs, lens2 \in SecondParagraphs :
         paragraphs = Document(lens1 \o lens2, {Len(lens1)}, 1100)
    /\ chunk_size = DefaultChunkSize
    /\ overlap = DefaultOverlap
    /\ ChunkStart
    /\ UiStart
    /\ ScriptStart({"empty"})

SpecScenario == InitScenario /\ [][Next]_vars

\* ------------------------------------------------------------ properties
Done == pc = "done"

\* chunk i of the output as the word list it was joined from
ChunkWords(i) == Split(chunks[i])

DocumentWords == Flatten(Sentences(paragraphs))

\* number of words the chunk after chunk i starts with from chunk i
SeedLen(i) == IF overlap > 0 THEN Min(overlap, Len(ChunkWords(i))) ELSE 0

\* C2 as stated: with overlap > 0, every chunk but the first starts with
\* `overlap` words equal to the last `overlap` words of the chunk before it
\* (chunk[:overlap] == previous[-overlap:]).
C2_LeadingEqualsTrailingOverlap ==
    overlap > 0 =>
        \A i \in 2..Len(chunks) :
            FirstWords(ChunkWords(i), overlap) = LastWords(ChunkWords(i - 1), overlap)

\* C2 amended: with overlap > 0, every chunk but the first starts with the
\* last n words of the chunk before it, n = min(overlap, words of that
\* chunk): its last `overlap` words when it has that many, all of it when
\* it is shorter.
C2_LeadingEqualsSeed ==
    overlap > 0 =>
        \A i \in 2..Len(chunks) :
            LET prev == ChunkWords(i - 1)
                n == Min(overlap, Len(prev))
            IN  SubSeq(ChunkWords(i), 1, n) = SubSeq(prev, Len(prev) - n + 1, Len(prev))

\* a finished run where a chunk of at least `overlap` words and a shorter
\* one were both closed
C2_Witness ==
    /\ Done
    /\ overlap > 0
    /\ \E i, j \in 1..(Len(chunks) - 1) :
         /\ Len(ChunkWords(i)) >= overlap
         /\ Len(ChunkWords(j)) \in 1..(overlap - 1)

\* the step of the sentence loop that closes a chunk
Closes == pc = "loop" /\ pc' = "loop" /\ Len(chunks') = Len(chunks) + 1

\* C3 as stated: when a chunk is closed the next one is seeded with the last
\* `overlap` words of the closed chunk, with nothing if overlap = 0 or the
\* closed chunk has fewer than `overlap` words, and the new sentence follows.
C3_SeedEmptyWhenShort ==
    [][Closes =>
         current_chunk' =
            (IF overlap = 0 \/ Len(current_chunk) < overlap
             THEN <<>>
             ELSE SubSeq(current_chunk, Len(current_chunk) - overlap + 1,
                         Len(current_chunk)))
            \o CurrentSentence]_vars

\* C3 amended: when a chunk is closed the next one is seeded with the last
\* `overlap` words of the closed chunk, with the whole closed chunk if it has
\* fewer than `overlap` words and with nothing if overlap = 0; the new
\* sentence follows the seed, and the closed chunk is what was accumulated.
C3_SeedIsTail ==
    [][Closes =>
         LET n == IF overlap > 0 THEN Min(overlap, Len(current_chunk)) ELSE 0
         IN  /\ current_chunk' =
                   SubSeq(current_chunk, Len(current_chunk) - n + 1,
                          Len(current_chunk)) \o CurrentSentence
             /\ Split(chunks'[Len(chunks')]) = current_chunk]_vars

\* a chunk shorter than `overlap` was just closed, and all of it seeds the
\* next chunk, ahead of the sentence that did not fit
C3_Witness ==
    /\ pc = "loop"
    /\ chunks # <<>>
    /\ LET closed == ChunkWords(Len(chunks))
       IN  /\ Len(closed) \in 1..(overlap - 1)
           /\ sent_i > 1
           /\ current_chunk = closed \o paragraphs[para_i][sent_i - 1]

\* C4: _chunk_text returns a non-empty list when the text has a word and an
\* empty list when it has none.
C4_NonEmptyIffWords ==
    Done => (chunks # <<>> <=> Len(DocumentWords) >= 1)

\* a finished run on a text with words
C4_Witness == Done /\ Len(DocumentWords) >= 1 /\ chunks # <<>>

RECURSIVE WithoutSeeds(_)
\* chunks 1..i in order, each but the first without its seed
WithoutSeeds(i) ==
    IF i = 0 THEN <<>>
    ELSE WithoutSeeds(i - 1)
         \o DropWords(ChunkWords(i), IF i = 1 THEN 0 ELSE SeedLen(i - 1))

\* the numbers of words before each sentence boundary of the text
SentenceBoundaries ==
    LET sents == Sentences(paragraphs)
    IN  {Len(Flatten(SubSeq(sents, 1, k))) : k \in 0..Len(sents)}

\* C5: no chunk boundary splits a sentence, also not one longer than
\* chunk_size: the chunks in order, each without its seed, are the words of
\* the text in order, and every chunk ends at the end of a sentence.
C5_WholeSentences ==
    Done =>
        /\ WithoutSeeds(Len(chunks)) = DocumentWords
        /\ \A i \in 0..Len(chunks) : Len(WithoutSeeds(i)) \in SentenceBoundaries

\* a finished run with several chunks, an overlap, and a sentence longer
\* than chunk_size
C5_Witness ==
    /\ Done
    /\ Len(chunks) >= 2
    /\ overlap > 0
    /\ \E k \in DOMAIN Sentences(paragraphs) :
         Len(Sentences(paragraphs)[k]) > chunk_size

\* C10 as stated: the text of two paragraphs of 600 and 500 words gives
\* exactly 2 chunks, the second being the last 100 words of the first
\* followed by the words of the second paragraph.
C10_SecondChunkIsSecondParagraph ==
    Done =>
        /\ Len(chunks) = 2
        /\ ChunkWords(2) = LastWords(ChunkWords(1), DefaultOverlap)
                           \o Flatten(paragraphs[2])

\* C10 amended: the text gives exactly 2 chunks; the first is the first
\* paragraph and the k leading sentences of the second that fit in 800
\* words, the second is the last 100 words of the first followed by the rest
\* of the second paragraph (all of it, k = 0, when its first sentence has
\* more than 200 words).
C10_SecondChunkIsRestOfSecondParagraph ==
    Done =>
        /\ Len(chunks) = 2
        /\ \E k \in 0..(Len(paragraphs[2]) - 1) :
             LET fits(j) == 600 + Len(Flatten(SubSeq(paragraphs[2], 1, j)))
                               <= DefaultChunkSize
                 rest == Flatten(SubSeq(paragraphs[2], k + 1, Len(paragraphs[2])))
             IN  /\ fits(k) /\ ~fits(k + 1)
                 /\ ChunkWords(1) = Flatten(paragraphs[1])
                                    \o Flatten(SubSeq(paragraphs[2], 1, k))
                 /\ ChunkWords(2) = SubSeq(ChunkWords(1),
                                           Len(ChunkWords(1)) - DefaultOverlap + 1,
                                           Len(ChunkWords(1))) \o rest
                 /\ (Len(paragraphs[2][1]) > 200 => k = 0)

\* a finished run where the second paragraph is several sentences, some of
\* which went into the first chunk
C10_Witness ==
    /\ Done
    /\ Len(paragraphs) = 2
    /\ Len(paragraphs[2]) > 1
    /\ Len(ChunkWords(1)) > 600
    /\ Len(chunks) = 2

\* C1 as stated: a query with top_k above the number N of stored chunks
\* assembles its context from exactly N entries, every stored chunk once.
C1_ContextHasEveryChunkOnce ==
    \A i \in DOMAIN script.printed :
        LET answer == script.printed[i]
            n == Len(db.chunks)
        IN  DefaultTopK > n =>
                /\ Len(answer.context) = n
                /\ \A c \in 1..n :
                     Cardinality({j \in DOMAIN answer.context :
                                     answer.context[j] = c}) = 1

\* C6 as stated: while a brochure is being rebuilt, a question in flight
\* (past the check of line 260) finds a session: the previous or the new one.
C6_QuestionInFlightFindsSession ==
    \A u, v \in Users :
        (proc[u].pc = "build" /\ ask[v].pc = "query") => genai_db # None

\* C7 as stated: a query that fails, the handler's test query or a user's
\* question, leaves the session as it was.
C7_FailedQueryKeepsSession ==
    [][\A u \in Users :
         (\/ proc[u].pc = "test_failed" /\ proc'[u].pc = "return"
          \/ ask[u].pc = "query" /\ ask'[u].pc = "idle")
         => genai_db' = genai_db]_vars

\* the session holds every chunk of its file and one vector per chunk
CompleteSession(s) ==
    /\ LoadMarkdown[s.markdown_path] # <<>>
    /\ [i \in DOMAIN s.chunks |-> StringOf(s.chunks[i])]
           = LoadMarkdown[s.markdown_path]
    /\ s.index.ntotal = Len(LoadMarkdown[s.markdown_path])

C9_CallerKeepsOwnSession ==
    \A u \in Users :
        /\ (proc[u].pc = "idle" /\ status_text[u] = "Ready"
            /\ data_state[u] # None) =>
               /\ genai_db # None
               /\ genai_db.markdown_path = ResponsePath(data_state[u].projectName)
        /\ \A i \in DOMAIN chat_state[u] :
               chat_state[u][i].kind = "Answer" =>
                   chat_state[u][i].from
                       = ResponsePath(chat_state[u][i].about.projectName)

\* the longest sentence of the text, in words
LongestSentence ==
    LET sents == Sentences(paragraphs)
    IN  IF sents = <<>> THEN 0
        ELSE CHOOSE n \in {Len(sents[k]) : k \in DOMAIN sents} :
                 \A k \in DOMAIN sents : Len(sents[k]) <= n

Max(a, b) == IF a > b THEN a ELSE b

\* the word lists _chunk_text has closed or is accumulating
WordLists == {ChunkWords(i) : i \in DOMAIN chunks} \cup {current_chunk}

\* C11: throughout _chunk_text the running count current_length is the
\* number of words in the accumulator; every chunk produced (and the
\* accumulator that becomes the last one) has at most
\* max(chunk_size, overlap + longest sentence) words, and at most chunk_size
\* words when every sentence has at most chunk_size - overlap words.
C11_ChunksBounded ==
    /\ current_length = Len(current_chunk)
    /\ \A w \in WordLists :
         /\ Len(w) <= Max(chunk_size, overlap + LongestSentence)
         /\ LongestSentence <= chunk_size - overlap => Len(w) <= chunk_size

\* a finished run with an overlap whose sentences all have at most
\* chunk_size - overlap words, where a chunk was closed, seeded the next one
\* and a chunk is full
C11_Witness ==
    /\ Done
    /\ overlap > 0
    /\ LongestSentence >= 1
    /\ LongestSentence <= chunk_size - overlap
    /\ Len(chunks) >= 3
    /\ \E i \in DOMAIN chunks : Len(ChunkWords(i)) = chunk_size

\* C12 as stated: every chunk _chunk_text appends to its output has at least
\* one word, no chunk is the empty string, also when the first sentence of
\* the text alone has more than chunk_size words (stated for a positive
\* chunk_size).
C12_NoEmptyChunk ==
    chunk_size >= 1 =>
        \A i \in DOMAIN chunks : chunks[i] # <<>> /\ Len(ChunkWords(i)) >= 1

\* C13 as stated: with the handlers run one at a time, whenever
\* process_brochure_handler returns, genai_db holds a session exactly when the
\* status it returns is 'Q&A Ready'; on every other return, the early failure
\* returns included, genai_db is None.
C13_SessionIffReady ==
    [][\A u \in Users :
         /\ ProcessReturn(u) =>
               (genai_db' # None <=> status_text'[u] = "Ready")
         /\ (ProcessNoPdf(u) \/ ProcessFailed(u)) => genai_db' = None]_vars

====
